---- MODULE Spec2Model ----
(***************************************************************************)
(* A* search for the sliding-tile puzzle (puzzles/search.py), the state    *)
(* container (puzzles/puzzle.py) and the heuristics                        *)
(* (puzzles/heuristics.py).                                                *)
(*                                                                         *)
(* Python lists are 0-indexed; a board is a TLA+ sequence b with           *)
(* b[i + 1] standing for board[i].  The source fixes the grid at 3 x 3     *)
(* (the literals 3 and 9); every operator below takes the grid             *)
(* d = <<rows, cols>> so that the same code can also be run on the 2 x 2   *)
(* and 2 x 3 grids, where a search that exhausts the frontier is small     *)
(* enough to be explored to its end.  With d = <<3, 3>> each operator is   *)
(* the source's.                                                           *)
(*                                                                         *)
(* Python evaluates an expression once and then uses its value.  Where a   *)
(* value is used many times it is named by a bound variable,               *)
(* x \in {e}, and `CHOOSE out \in {F(x) : x \in {e}} : TRUE` is F(e).      *)
(***************************************************************************)
EXTENDS Integers, Sequences, FiniteSets, TLC

VARIABLES
    dim,             \* the grid <<rows, cols>>; <<3, 3>> in the source
    goal_state,      \* a_star_search's goal_state argument
    heuristic_method,\* a_star_search's heuristic_method argument
    pc,              \* "init" | "loop" | "done" | "error" | "probe" | "probed"
    states,          \* the PuzzleState objects of the search, by identity
    frontier,        \* the heap list of (f, h, order, state) tuples
    explored,        \* the set `explored` (identities of the states added)
    counter,         \* the next value of itertools.count()
    explored_count,  \* explored_count
    popped,          \* the tuple last returned by heapq.heappop
    result,          \* what a_star_search returned
    probe            \* the heuristics test's state, h_h and h_m

vars == <<dim, goal_state, heuristic_method, pc, states, frontier, explored,
          counter, explored_count, popped, result, probe>>

----------------------------------------------------------------------------
(* Bounds of the model *)

\* start boards are built by at most this many legal moves from the goal
MaxScramble == 10
\* start boards of the other parity class (small grids only): legal moves
\* applied to the goal with its first two tiles exchanged
MaxTwinScramble == 2
\* boards handed to the heuristics alone: at most this many exchanges of
\* two cells
MaxExchanges == 3

\* outcomes of random.shuffle in the board generator: at most this many
\* exchanges of two cells away from list(range(9))
MaxShuffleExchanges == 2

\* The source's grid
GridDim == <<3, 3>>
\* The reduced grids
SmallDims == {<<2, 2>>, <<2, 3>>}

Methods == {"hamming", "manhattan", "euclid"}

----------------------------------------------------------------------------
(* Python helpers *)

Rows(d) == d[1]
Cols(d) == d[2]
Cells(d) == d[1] * d[2]

\* list.index(v): the first position holding v
Index(list, v) ==
    CHOOSE i \in 0..(Len(list) - 1) :
        /\ list[i + 1] = v
        /\ \A j \in 0..(i - 1) : list[j + 1] # v

Abs(x) == IF x < 0 THEN -x ELSE x

RECURSIVE SumTo(_, _)
\* sum(f[i] for i in range(n))
SumTo(f, n) == IF n = 0 THEN 0 ELSE SumTo(f, n - 1) + f[n - 1]

\* a, b = b, a on positions i and j of a copy of the list
Swapped(list, i, j) ==
    [list EXCEPT ![i + 1] = list[j + 1], ![j + 1] = list[i + 1]]

----------------------------------------------------------------------------
(* puzzles/puzzle.py *)

\* PuzzleState.__init__; parent = 0 stands for "no parent attribute"
PuzzleState(board, g, h) ==
    [board |-> board, g |-> g, h |-> h, f |-> g + h,
     blank_index |-> Index(board, 0), parent |-> 0]

\* the deltas listed right, left, down, up
Deltas_reordered == << <<0, 1>>, <<0, -1>>, <<1, 0>>, <<-1, 0>> >>

\* the deltas with the move to the right forgotten
Deltas_without_right == << <<-1, 0>>, <<1, 0>>, <<0, -1>> >>

\* the deltas with (1, 1) written for the move down: a diagonal step
Deltas_down_diagonal == << <<-1, 0>>, <<1, 1>>, <<0, -1>>, <<0, 1>> >>

\* the deltas with the move up forgotten
Deltas_without_up == << <<1, 0>>, <<0, -1>>, <<0, 1>> >>

\* the 4-way movement deltas: up, down, left, right
Deltas == << <<-1, 0>>, <<1, 0>>, <<0, -1>>, <<0, 1>> >>

RECURSIVE NeighborsFrom(_, _, _)
NeighborsFrom(self, d, k) ==
    IF k > Len(Deltas) THEN << >>
    ELSE LET row == self.blank_index \div Cols(d)
             col == self.blank_index % Cols(d)
             r == row + Deltas[k][1]
             c == col + Deltas[k][2]
             new_blank == r * Cols(d) + c
         IN  IF 0 <= r /\ r < Rows(d) /\ 0 <= c /\ c < Cols(d)
             THEN << PuzzleState(Swapped(self.board, self.blank_index, new_blank),
                                 self.g + 1, 0) >>
                  \o NeighborsFrom(self, d, k + 1)
             ELSE NeighborsFrom(self, d, k + 1)

RECURSIVE NeighborsUnchecked(_, _, _)
\* neighbors without the column test: a move off the left or right edge
\* lands on the adjacent row
NeighborsUnchecked(self, d, k) ==
    IF k > Len(Deltas) THEN << >>
    ELSE LET row == self.blank_index \div Cols(d)
             col == self.blank_index % Cols(d)
             r == row + Deltas[k][1]
             c == col + Deltas[k][2]
             new_blank == r * Cols(d) + c
         IN  IF 0 <= r /\ r < Rows(d) /\ 0 <= new_blank /\ new_blank < Cells(d)
             THEN << PuzzleState(Swapped(self.board, self.blank_index, new_blank),
                                 self.g + 1, 0) >>
                  \o NeighborsUnchecked(self, d, k + 1)
             ELSE NeighborsUnchecked(self, d, k + 1)

neighbors_without_column_test(self, d) == NeighborsUnchecked(self, d, 1)

\* neighbors creating each child with the parent's g
neighbors_keeping_g(self, d) ==
    [k \in 1..Len(NeighborsFrom(self, d, 1)) |->
        [NeighborsFrom(self, d, 1)[k] EXCEPT !.g = self.g, !.f = self.g]]

\* neighbors with the swap cut to one assignment: the blank is written to
\* its new cell and the tile that was there is not written back
neighbors_overwriting_tile(self, d) ==
    [k \in 1..Len(NeighborsFrom(self, d, 1)) |->
        LET child == NeighborsFrom(self, d, 1)[k]
            new_board == [child.board EXCEPT ![self.blank_index + 1] = 0]
        IN  [child EXCEPT !.board = new_board,
                          !.blank_index = Index(new_board, 0)]]

\* PuzzleState.neighbors
neighbors(self, d) == NeighborsFrom(self, d, 1)

\* the range of the model's hash values
HashModulus == 2 ^ 16

RECURSIVE TupleHashFrom(_, _, _)
\* hash(tuple): the items are folded one by one, in order, into an
\* accumulator of fixed width; the value depends on the items and their
\* order and on nothing else, and distinct tuples may collide.  (CPython
\* folds with 64-bit multipliers; the width here is 16 bits.)
TupleHashFrom(t, k, acc) ==
    IF k > Len(t) THEN acc
    ELSE TupleHashFrom(t, k + 1, (acc * 31 + t[k] + 1) % HashModulus)

TupleHash(t) == TupleHashFrom(t, 1, Len(t))

\* a hash that also takes in the cost so far
StateHash_with_g(self) == TupleHash(self.board \o <<self.g>>)

\* PuzzleState.__hash__
StateHash(self) == TupleHash(self.board)

\* equality on the board and the cost so far
StateEq_board_and_g(self, other) == self.board = other.board /\ self.g = other.g

\* equality on every attribute instead of the board alone
StateEq_all_attributes(self, other) == self = other

\* PuzzleState.__eq__
StateEq(self, other) == self.board = other.board

----------------------------------------------------------------------------
(* puzzles/heuristics.py *)

\* hamming_distance with the blank counted like a tile
hamming_distance_counting_blank(board, goal, d) ==
    SumTo([i \in 0..(Cells(d) - 1) |->
              IF board[i + 1] # goal[i + 1] THEN 1 ELSE 0],
          Cells(d))

hamming_distance(board, goal, d) ==
    SumTo([i \in 0..(Cells(d) - 1) |->
              IF board[i + 1] # 0 /\ board[i + 1] # goal[i + 1] THEN 1 ELSE 0],
          Cells(d))

\* manhattan_distance with the column term left out
manhattan_distance_rows_only(board, goal, d) ==
    SumTo([i \in 0..(Len(board) - 1) |->
              LET tile == board[i + 1]
              IN  IF tile # 0
                  THEN Abs((i \div Cols(d)) - (Index(goal, tile) \div Cols(d)))
                  ELSE 0],
          Len(board))

\* manhattan_distance with each tile's goal cell taken from its number
\* (tile t belongs on cell t - 1) instead of from goal.index(tile)
manhattan_distance_fixed_goal(board, goal, d) ==
    SumTo([i \in 0..(Len(board) - 1) |->
              LET tile == board[i + 1]
              IN  IF tile # 0
                  THEN LET goal_index == tile - 1
                           x1 == i \div Cols(d)
                           y1 == i % Cols(d)
                           x2 == goal_index \div Cols(d)
                           y2 == goal_index % Cols(d)
                       IN  Abs(x1 - x2) + Abs(y1 - y2)
                  ELSE 0],
          Len(board))

\* manhattan_distance without the `if tile != 0` test: the blank's own
\* distance is added
manhattan_distance_counting_blank(board, goal, d) ==
    SumTo([i \in 0..(Len(board) - 1) |->
              LET tile == board[i + 1]
                  goal_index == Index(goal, tile)
                  x1 == i \div Cols(d)
                  y1 == i % Cols(d)
                  x2 == goal_index \div Cols(d)
                  y2 == goal_index % Cols(d)
              IN  Abs(x1 - x2) + Abs(y1 - y2)],
          Len(board))

manhattan_distance(board, goal, d) ==
    SumTo([i \in 0..(Len(board) - 1) |->
              LET tile == board[i + 1]
              IN  IF tile # 0
                  THEN LET goal_index == Index(goal, tile)
                           x1 == i \div Cols(d)
                           y1 == i % Cols(d)
                           x2 == goal_index \div Cols(d)
                           y2 == goal_index % Cols(d)
                       IN  Abs(x1 - x2) + Abs(y1 - y2)
                  ELSE 0],
          Len(board))

\* what a call yields: a value, or an exception
Return(v) == [raised |-> FALSE, value |-> v]
Raise == [raised |-> TRUE, value |-> 0]

\* compute_h with the final else falling back to manhattan
compute_h_defaulting(board, goal, method, d) ==
    IF method = "hamming" THEN Return(hamming_distance(board, goal, d))
    ELSE Return(manhattan_distance(board, goal, d))

\* compute_h with the two branches exchanged
compute_h_swapped(board, goal, method, d) ==
    IF method = "hamming" THEN Return(manhattan_distance(board, goal, d))
    ELSE IF method = "manhattan" THEN Return(hamming_distance(board, goal, d))
    ELSE Raise

compute_h(board, goal, method, d) ==
    IF method = "hamming" THEN Return(hamming_distance(board, goal, d))
    ELSE IF method = "manhattan" THEN Return(manhattan_distance(board, goal, d))
    ELSE Raise

----------------------------------------------------------------------------
(* heapq, on the tuples (f, h, order, state) that search.py pushes *)

\* tuple comparison a < b: the first differing component decides.  The
\* fourth component (a PuzzleState, which defines no __lt__) is reached
\* only when f, h and order all agree.
\* the order of the commented-out PuzzleState.__lt__: f alone
TupleLess_f_only(a, b) == a[1] < b[1]

TupleLess(a, b) ==
    \/ a[1] < b[1]
    \/ a[1] = b[1] /\ a[2] < b[2]
    \/ a[1] = b[1] /\ a[2] = b[2] /\ a[3] < b[3]

RECURSIVE siftdown(_, _, _, _)
\* heapq._siftdown with newitem carried along; positions are 0-based
siftdown(heap, startpos, pos, newitem) ==
    IF pos > startpos
    THEN LET parentpos == (pos - 1) \div 2
             parent == heap[parentpos + 1]
         IN  IF TupleLess(newitem, parent)
             THEN CHOOSE out \in {siftdown(h, startpos, p, newitem) :
                                  h \in {[heap EXCEPT ![pos + 1] = parent]},
                                  p \in {parentpos}} : TRUE
             ELSE [heap EXCEPT ![pos + 1] = newitem]
    ELSE [heap EXCEPT ![pos + 1] = newitem]

RECURSIVE siftup(_, _, _, _)
\* heapq._siftup: bubble the smaller child up until a leaf is hit, then
\* sift newitem down from there
siftup(heap, startpos, pos, newitem) ==
    LET endpos == Len(heap)
        childpos == 2 * pos + 1
        rightpos == childpos + 1
    IN  IF childpos < endpos
        THEN LET child == IF rightpos < endpos
                             /\ ~TupleLess(heap[childpos + 1], heap[rightpos + 1])
                          THEN rightpos ELSE childpos
             IN  CHOOSE out \in {siftup(h, startpos, c, newitem) :
                                 h \in {[heap EXCEPT ![pos + 1] = heap[child + 1]]},
                                 c \in {child}} : TRUE
        ELSE siftdown(heap, startpos, pos, newitem)

\* heapq.heappush(heap, item): the heap afterwards
heappush(heap, item) ==
    CHOOSE out \in {siftdown(h, 0, Len(h) - 1, item) : h \in {Append(heap, item)}} : TRUE

\* heapq.heappop(heap): <<the item returned, the heap afterwards>>
heappop(heap) ==
    LET lastelt == heap[Len(heap)]
    IN  IF Len(heap) > 1
        THEN << heap[1],
                CHOOSE out \in {siftup(h, 0, 0, lastelt) :
                                h \in {SubSeq(heap, 1, Len(heap) - 1)}} : TRUE >>
        ELSE << lastelt, << >> >>

----------------------------------------------------------------------------
(* puzzles/search.py *)

\* `state in explored`: set membership by __hash__/__eq__, i.e. by board
\* (an element is found when its hash and the state's agree and __eq__ holds)
InExplored(state, expl, sts) ==
    \E e \in expl : StateEq(sts[e], state) /\ StateHash(sts[e]) = StateHash(state)

RECURSIVE ParentChain(_, _)
\* the while loop of reconstruct_path: the state, then its ancestors
ParentChain(id, sts) ==
    IF id = 0 THEN << >> ELSE << id >> \o ParentChain(sts[id].parent, sts)

Reverse(list) == [i \in 1..Len(list) |-> list[Len(list) + 1 - i]]

\* reconstruct_path without path.reverse()
reconstruct_path_not_reversed(id, sts) == ParentChain(id, sts)

\* reconstruct_path with the loop stopped at the state whose parent is None:
\* the initial state is left out
reconstruct_path_dropping_start(id, sts) ==
    LET chain == ParentChain(id, sts)
    IN  Reverse(SubSeq(chain, 1, Len(chain) - 1))

reconstruct_path(id, sts) == Reverse(ParentChain(id, sts))

\* the loop body with f = h: the cost so far left out of the priority
PushNeighbor_f_without_g(acc, neighbor, current, expl, goal, method, d) ==
    IF InExplored(neighbor, expl, acc.states) THEN acc
    ELSE CHOOSE out \in
            {LET g == acc.states[current].g + 1
                 pushed == [neighbor EXCEPT !.h = h, !.g = g, !.f = h,
                                            !.parent = current]
                 id == Len(acc.states) + 1
             IN  [states |-> Append(acc.states, pushed),
                  frontier |-> heappush(acc.frontier, <<h, h, acc.counter, id>>),
                  counter |-> acc.counter + 1] :
                h \in {compute_h(neighbor.board, goal, method, d).value}} : TRUE

\* the loop body with the neighbor's h always the Hamming distance, whatever
\* heuristic the search was called with
PushNeighbor_always_hamming(acc, neighbor, current, expl, goal, method, d) ==
    IF InExplored(neighbor, expl, acc.states) THEN acc
    ELSE CHOOSE out \in
            {LET g == acc.states[current].g + 1
                 pushed == [neighbor EXCEPT !.h = h, !.g = g, !.f = g + h,
                                            !.parent = current]
                 id == Len(acc.states) + 1
             IN  [states |-> Append(acc.states, pushed),
                  frontier |-> heappush(acc.frontier, <<g + h, h, acc.counter, id>>),
                  counter |-> acc.counter + 1] :
                h \in {hamming_distance(neighbor.board, goal, d)}} : TRUE

\* the loop body pushing with the counter's current value without advancing
\* it
PushNeighbor_reusing_counter(acc, neighbor, current, expl, goal, method, d) ==
    IF InExplored(neighbor, expl, acc.states) THEN acc
    ELSE CHOOSE out \in
            {LET g == acc.states[current].g + 1
                 pushed == [neighbor EXCEPT !.h = h, !.g = g, !.f = g + h,
                                            !.parent = current]
                 id == Len(acc.states) + 1
             IN  [states |-> Append(acc.states, pushed),
                  frontier |-> heappush(acc.frontier, <<g + h, h, acc.counter, id>>),
                  counter |-> acc.counter] :
                h \in {compute_h(neighbor.board, goal, method, d).value}} : TRUE

\* the loop body linking every neighbor to the start state instead of the
\* state being expanded
PushNeighbor_parent_is_start(acc, neighbor, current, expl, goal, method, d) ==
    IF InExplored(neighbor, expl, acc.states) THEN acc
    ELSE CHOOSE out \in
            {LET g == acc.states[current].g + 1
                 pushed == [neighbor EXCEPT !.h = h, !.g = g, !.f = g + h,
                                            !.parent = 1]
                 id == Len(acc.states) + 1
             IN  [states |-> Append(acc.states, pushed),
                  frontier |-> heappush(acc.frontier, <<g + h, h, acc.counter, id>>),
                  counter |-> acc.counter + 1] :
                h \in {compute_h(neighbor.board, goal, method, d).value}} : TRUE

\* the body of `for neighbor in current_state.neighbors()` for one neighbor;
\* acc holds the objects, the heap and the counter
PushNeighbor(acc, neighbor, current, expl, goal, method, d) ==
    IF InExplored(neighbor, expl, acc.states) THEN acc
    ELSE CHOOSE out \in
            {LET g == acc.states[current].g + 1
                 pushed == [neighbor EXCEPT !.h = h, !.g = g, !.f = g + h,
                                            !.parent = current]
                 id == Len(acc.states) + 1
             IN  [states |-> Append(acc.states, pushed),
                  frontier |-> heappush(acc.frontier, <<g + h, h, acc.counter, id>>),
                  counter |-> acc.counter + 1] :
                h \in {compute_h(neighbor.board, goal, method, d).value}} : TRUE

RECURSIVE PushNeighbors(_, _, _, _, _, _, _, _)
PushNeighbors(acc, nbrs, k, current, expl, goal, method, d) ==
    IF k > Len(nbrs) THEN acc
    ELSE CHOOSE out \in
            {PushNeighbors(a, nbrs, k + 1, current, expl, goal, method, d) :
                a \in {PushNeighbor(acc, nbrs[k], current, expl, goal, method, d)}} :
            TRUE

NoTuple == <<0, 0, 0, 0>>
NoResult == [path |-> << >>, none |-> FALSE, explored_count |-> 0]
NoProbe == [state |-> << >>, h_h |-> 0, h_m |-> 0]

\* lines 28-38 when compute_h returns: the start state gets h and f and is
\* pushed with order 0
Initialize ==
    /\ pc = "init"
    /\ LET hv == compute_h(states[1].board, goal_state, heuristic_method, dim)
           h == hv.value
           f == states[1].g + h
       IN  /\ ~hv.raised
           /\ states' = [states EXCEPT ![1].h = h, ![1].f = f]
           /\ frontier' = heappush(<< >>, <<f, h, 0, 1>>)
    /\ counter' = 1
    /\ explored' = {}
    /\ explored_count' = 0
    /\ pc' = "loop"
    /\ UNCHANGED <<dim, goal_state, heuristic_method, popped, result, probe>>

\* lines 28-33 when compute_h raises ValueError: the call ends there
InitializeRaises ==
    /\ pc = "init"
    /\ compute_h(states[1].board, goal_state, heuristic_method, dim).raised
    /\ counter' = 0
    /\ frontier' = << >>
    /\ explored' = {}
    /\ pc' = "error"
    /\ UNCHANGED <<dim, goal_state, heuristic_method, states, explored_count,
                   popped, result, probe>>

\* the goal test with the final pop counted as an expansion
PopGoal_counting_final_pop ==
    /\ pc = "loop"
    /\ frontier # << >>
    /\ \E pop \in {heappop(frontier)} :
         LET current_state == pop[1][4]
         IN  /\ states[current_state].board = goal_state
             /\ popped' = pop[1]
             /\ frontier' = pop[2]
             /\ result' = [path |-> reconstruct_path(current_state, states),
                           none |-> FALSE,
                           explored_count |-> explored_count + 1]
    /\ pc' = "done"
    /\ UNCHANGED <<dim, goal_state, heuristic_method, states, explored, counter,
                   explored_count, probe>>

\* line 45 and the goal test of lines 48-49
PopGoal ==
    /\ pc = "loop"
    /\ frontier # << >>
    /\ \E pop \in {heappop(frontier)} :
         LET current_state == pop[1][4]
         IN  /\ states[current_state].board = goal_state
             /\ popped' = pop[1]
             /\ frontier' = pop[2]
             /\ result' = [path |-> reconstruct_path(current_state, states),
                           none |-> FALSE,
                           explored_count |-> explored_count]
    /\ pc' = "done"
    /\ UNCHANGED <<dim, goal_state, heuristic_method, states, explored, counter,
                   explored_count, probe>>

\* the skip with explored_count += 1 placed before the visited test
PopSkip_counting ==
    /\ pc = "loop"
    /\ frontier # << >>
    /\ \E pop \in {heappop(frontier)} :
         LET current_state == pop[1][4]
         IN  /\ states[current_state].board # goal_state
             /\ InExplored(states[current_state], explored, states)
             /\ popped' = pop[1]
             /\ frontier' = pop[2]
    /\ explored_count' = explored_count + 1
    /\ UNCHANGED <<dim, goal_state, heuristic_method, pc, states, explored,
                   counter, result, probe>>

\* line 45 and the skip of lines 52-53
PopSkip ==
    /\ pc = "loop"
    /\ frontier # << >>
    /\ \E pop \in {heappop(frontier)} :
         LET current_state == pop[1][4]
         IN  /\ states[current_state].board # goal_state
             /\ InExplored(states[current_state], explored, states)
             /\ popped' = pop[1]
             /\ frontier' = pop[2]
    /\ UNCHANGED <<dim, goal_state, heuristic_method, pc, states, explored,
                   counter, explored_count, result, probe>>

\* the expansion with neighbors() swapping on self.board itself instead of a
\* copy: the expanded state is left with the board of its last neighbor
PopExpand_swapping_in_place ==
    /\ pc = "loop"
    /\ frontier # << >>
    /\ \E pop \in {heappop(frontier)} :
         LET current_state == pop[1][4]
         IN  /\ states[current_state].board # goal_state
             /\ ~InExplored(states[current_state], explored, states)
             /\ popped' = pop[1]
             /\ explored' = explored \cup {current_state}
             /\ explored_count' = explored_count + 1
             /\ \E nbrs \in {neighbors(states[current_state], dim)} :
                \E acc \in {PushNeighbors([states |-> states,
                                           frontier |-> pop[2],
                                           counter |-> counter],
                                          nbrs, 1, current_state,
                                          explored \cup {current_state},
                                          goal_state, heuristic_method, dim)} :
                   /\ states' = [acc.states EXCEPT
                                    ![current_state].board = nbrs[Len(nbrs)].board]
                   /\ frontier' = acc.frontier
                   /\ counter' = acc.counter
    /\ UNCHANGED <<dim, goal_state, heuristic_method, pc, result, probe>>

\* the expansion with the neighbors taken in either of two orders, as a loop
\* over an unordered collection would
PopExpand_in_any_order ==
    /\ pc = "loop"
    /\ frontier # << >>
    /\ \E pop \in {heappop(frontier)} :
         LET current_state == pop[1][4]
         IN  /\ states[current_state].board # goal_state
             /\ ~InExplored(states[current_state], explored, states)
             /\ popped' = pop[1]
             /\ explored' = explored \cup {current_state}
             /\ explored_count' = explored_count + 1
             /\ \E nbrs \in {neighbors(states[current_state], dim),
                             Reverse(neighbors(states[current_state], dim))} :
                \E acc \in {PushNeighbors([states |-> states,
                                           frontier |-> pop[2],
                                           counter |-> counter],
                                          nbrs, 1, current_state,
                                          explored \cup {current_state},
                                          goal_state, heuristic_method, dim)} :
                   /\ states' = acc.states
                   /\ frontier' = acc.frontier
                   /\ counter' = acc.counter
    /\ UNCHANGED <<dim, goal_state, heuristic_method, pc, result, probe>>

\* line 45 and the expansion of lines 54-70
PopExpand ==
    /\ pc = "loop"
    /\ frontier # << >>
    /\ \E pop \in {heappop(frontier)} :
         LET current_state == pop[1][4]
         IN  /\ states[current_state].board # goal_state
             /\ ~InExplored(states[current_state], explored, states)
             /\ popped' = pop[1]
             /\ explored' = explored \cup {current_state}
             /\ explored_count' = explored_count + 1
             /\ \E nbrs \in {neighbors(states[current_state], dim)} :
                \E acc \in {PushNeighbors([states |-> states,
                                           frontier |-> pop[2],
                                           counter |-> counter],
                                          nbrs, 1, current_state,
                                          explored \cup {current_state},
                                          goal_state, heuristic_method, dim)} :
                   /\ states' = acc.states
                   /\ frontier' = acc.frontier
                   /\ counter' = acc.counter
    /\ UNCHANGED <<dim, goal_state, heuristic_method, pc, result, probe>>

\* an empty frontier reported by raising instead of returning None
Exhausted_raising ==
    /\ pc = "loop"
    /\ frontier = << >>
    /\ pc' = "error"
    /\ UNCHANGED <<dim, goal_state, heuristic_method, states, frontier, explored,
                   counter, explored_count, popped, result, probe>>

\* line 73: the frontier is empty
Exhausted ==
    /\ pc = "loop"
    /\ frontier = << >>
    /\ result' = [path |-> << >>, none |-> TRUE,
                  explored_count |-> explored_count]
    /\ pc' = "done"
    /\ UNCHANGED <<dim, goal_state, heuristic_method, states, frontier, explored,
                   counter, explored_count, popped, probe>>

----------------------------------------------------------------------------
(* the callers: the boards a search is started on *)

\* puzzles.config.GOAL_STATE: the tiles in order, the blank last
GOAL_STATE(d) == [i \in 1..Cells(d) |-> IF i = Cells(d) THEN 0 ELSE i]

\* tests/test_search.py apply_move: the board after the blank moved by
\* (dr, dc); << >> stands for None
apply_move(board, dr, dc, d) ==
    LET bi == Index(board, 0)
        r == bi \div Cols(d)
        c == bi % Cols(d)
        nr == r + dr
        nc == c + dc
        ni == nr * Cols(d) + nc
    IN  IF ~(0 <= nr /\ nr < Rows(d) /\ 0 <= nc /\ nc < Cols(d)) THEN << >>
        ELSE Swapped(board, bi, ni)

Moves == {<<0, 1>>, <<1, 0>>, <<0, -1>>, <<-1, 0>>}

RECURSIVE Scrambled(_, _, _)
\* the boards apply_moves_from_goal builds from the boards in S with at
\* most k moves
Scrambled(S, k, d) ==
    IF k = 0 THEN S
    ELSE Scrambled(S \cup ({apply_move(b, mv[1], mv[2], d) : b \in S, mv \in Moves}
                            \ {<< >>}),
                   k - 1, d)

\* the goal with its first two cells exchanged: not reachable from the goal
Twin(board) == Swapped(board, 0, 1)

StartBoards(d) ==
    Scrambled({GOAL_STATE(d)}, MaxScramble, d)
    \cup (IF d \in SmallDims
          THEN Scrambled({Twin(GOAL_STATE(d))}, MaxTwinScramble, d)
          ELSE {})

Init ==
    /\ dim \in {GridDim} \cup SmallDims
    /\ goal_state = GOAL_STATE(dim)
    /\ heuristic_method \in Methods
    /\ pc = "init"
    /\ \E start_board \in StartBoards(dim) :
           states = << PuzzleState(start_board, 0, 0) >>
    /\ frontier = << >>
    /\ explored = {}
    /\ counter = 0
    /\ explored_count = 0
    /\ popped = NoTuple
    /\ result = NoResult
    /\ probe = NoProbe

Next ==
    \/ Initialize
    \/ InitializeRaises
    \/ PopGoal
    \/ PopSkip
    \/ PopExpand
    \/ Exhausted

Spec == Init /\ [][Next]_vars

----------------------------------------------------------------------------
(* tests/test_heuristics.py: both heuristics on a shuffled list(range(n)) *)

RECURSIVE Exchanged(_, _, _)
\* the lists of S after at most k exchanges of two of their n positions
Exchanged(S, k, n) ==
    IF k = 0 THEN S
    ELSE Exchanged(S \cup {Swapped(b, p[1], p[2]) :
                              b \in S,
                              p \in {q \in (0..(n - 1)) \X (0..(n - 1)) : q[1] < q[2]}},
                   k - 1, n)

\* random.shuffle can leave any permutation; the ones taken here are within
\* MaxExchanges exchanges of list(range(n)) or of the goal
ShuffledBoards(d) ==
    Exchanged({[i \in 1..Cells(d) |-> i - 1], GOAL_STATE(d)}, MaxExchanges, Cells(d))

ProbeInit ==
    /\ dim \in {GridDim} \cup SmallDims
    /\ goal_state = GOAL_STATE(dim)
    /\ heuristic_method = "hamming"
    /\ pc = "probe"
    /\ states = << >>
    /\ frontier = << >>
    /\ explored = {}
    /\ counter = 0
    /\ explored_count = 0
    /\ popped = NoTuple
    /\ result = NoResult
    /\ \E state \in ShuffledBoards(dim) :
           probe = [state |-> state, h_h |-> 0, h_m |-> 0]

\* h_h = hamming_distance(state, GOAL); h_m = manhattan_distance(state, GOAL)
Probe ==
    /\ pc = "probe"
    /\ probe' = [probe EXCEPT
                    !.h_h = hamming_distance(probe.state, goal_state, dim),
                    !.h_m = manhattan_distance(probe.state, goal_state, dim)]
    /\ pc' = "probed"
    /\ UNCHANGED <<dim, goal_state, heuristic_method, states, frontier, explored,
                   counter, explored_count, popped, result>>

\* test_if_correct_order_goal_state_has_zero_cost_with_hamming_and_manhattan,
\* with the board itself passed as the goal
ProbeSelf ==
    /\ pc = "probe"
    /\ goal_state' = probe.state
    /\ probe' = [state |-> probe.state,
                 h_h |-> hamming_distance(probe.state, probe.state, dim),
                 h_m |-> manhattan_distance(probe.state, probe.state, dim),
                 c_h |-> compute_h(probe.state, probe.state, "hamming", dim),
                 c_m |-> compute_h(probe.state, probe.state, "manhattan", dim)]
    /\ pc' = "probed_self"
    /\ UNCHANGED <<dim, heuristic_method, states, frontier, explored,
                   counter, explored_count, popped, result>>

\* test_compute_h_selector: compute_h with either method name
ProbeSelector ==
    /\ pc = "probe"
    /\ probe' = [state |-> probe.state,
                 h_h |-> 0,
                 h_m |-> 0,
                 c_h |-> compute_h(probe.state, goal_state, "hamming", dim),
                 c_m |-> compute_h(probe.state, goal_state, "manhattan", dim)]
    /\ pc' = "selected"
    /\ UNCHANGED <<dim, goal_state, heuristic_method, states, frontier, explored,
                   counter, explored_count, popped, result>>

\* the g values the PuzzleState tests construct a state with
ProbeGs == {0, 2}

\* tests/test_puzzle.py TestNeighbors: state = PuzzleState(board, g);
\* state.neighbors()
ProbeNeighbors ==
    /\ pc = "probe"
    /\ \E g \in ProbeGs :
         LET self == PuzzleState(probe.state, g, 0)
         IN  probe' = [state |-> probe.state,
                       self |-> self,
                       neighbors |-> neighbors(self, dim)]
    /\ pc' = "neighbored"
    /\ UNCHANGED <<dim, goal_state, heuristic_method, states, frontier, explored,
                   counter, explored_count, popped, result>>

ProbeNext ==
    \/ Probe
    \/ ProbeSelf
    \/ ProbeSelector
    \/ ProbeNeighbors

ProbeSpec == ProbeInit /\ [][ProbeNext]_vars

----------------------------------------------------------------------------
(* puzzles/helpers.py *)

\* is_solvable with the blank left in the list
is_solvable_counting_blank(board) ==
    LET arr == board
        inversions == Cardinality({p \in (1..Len(arr)) \X (1..Len(arr)) :
                                      p[1] < p[2] /\ arr[p[1]] > arr[p[2]]})
    IN  inversions % 2 = 0

is_solvable(board) ==
    LET arr == SelectSeq(board, LAMBDA x : x # 0)
        inversions == Cardinality({p \in (1..Len(arr)) \X (1..Len(arr)) :
                                      p[1] < p[2] /\ arr[p[1]] > arr[p[2]]})
    IN  inversions % 2 = 0

\* what random.shuffle(board) can leave in board; the order it starts from
\* does not matter, every order can come out
ShuffleOutcomes(d) ==
    Exchanged({[i \in 1..Cells(d) |-> i - 1]}, MaxShuffleExchanges, Cells(d))

\* generate_random_board line 20: board = list(range(9))
GenInit ==
    /\ dim = GridDim
    /\ goal_state = GOAL_STATE(dim)
    /\ heuristic_method = "hamming"
    /\ pc = "gen"
    /\ states = << >>
    /\ frontier = << >>
    /\ explored = {}
    /\ counter = 0
    /\ explored_count = 0
    /\ popped = NoTuple
    /\ result = NoResult
    /\ probe = [board |-> [i \in 1..Cells(dim) |-> i - 1]]

\* line 23: the first random.shuffle(board)
GenShuffle ==
    /\ pc = "gen"
    /\ \E board \in ShuffleOutcomes(dim) :
           probe' = [probe EXCEPT !.board = board]
    /\ pc' = "gen_test"
    /\ UNCHANGED <<dim, goal_state, heuristic_method, states, frontier, explored,
                   counter, explored_count, popped, result>>

\* lines 24-25: the board is not solvable, shuffle again
GenReshuffle ==
    /\ pc = "gen_test"
    /\ ~is_solvable(probe.board)
    /\ \E board \in ShuffleOutcomes(dim) :
           probe' = [probe EXCEPT !.board = board]
    /\ UNCHANGED <<dim, goal_state, heuristic_method, pc, states, frontier,
                   explored, counter, explored_count, popped, result>>

\* the generator returning the board after the first shuffle, untested
GenReturn_unchecked ==
    /\ pc = "gen_test"
    /\ pc' = "generated"
    /\ UNCHANGED <<dim, goal_state, heuristic_method, states, frontier, explored,
                   counter, explored_count, popped, result, probe>>

\* lines 24 and 28: the loop ends, return board
GenReturn ==
    /\ pc = "gen_test"
    /\ is_solvable(probe.board)
    /\ pc' = "generated"
    /\ UNCHANGED <<dim, goal_state, heuristic_method, states, frontier, explored,
                   counter, explored_count, popped, result, probe>>

GenNext ==
    \/ GenShuffle
    \/ GenReshuffle
    \/ GenReturn

GenSpec == GenInit /\ [][GenNext]_vars

----------------------------------------------------------------------------
(* legal blank moves applied one after another, as apply_moves_from_goal
   applies them: from the goal, and from the goal with its first two tiles
   exchanged, so that the boards of both classes are visited *)

WalkInit ==
    /\ dim = GridDim
    /\ goal_state = GOAL_STATE(dim)
    /\ heuristic_method = "hamming"
    /\ pc = "walk"
    /\ states = << >>
    /\ frontier = << >>
    /\ explored = {}
    /\ counter = 0
    /\ explored_count = 0
    /\ popped = NoTuple
    /\ result = NoResult
    /\ probe \in {[board |-> GOAL_STATE(dim), origin |-> "goal"],
                   [board |-> Twin(GOAL_STATE(dim)), origin |-> "twin"]}

\* b = apply_move(b, dr, dc) for a move that stays on the grid
WalkMove ==
    /\ pc = "walk"
    /\ \E mv \in Moves :
         \E b \in {apply_move(probe.board, mv[1], mv[2], dim)} :
            /\ b # << >>
            /\ probe' = [probe EXCEPT !.board = b]
    /\ UNCHANGED <<dim, goal_state, heuristic_method, pc, states, frontier,
                   explored, counter, explored_count, popped, result>>

WalkNext == WalkMove

WalkSpec == WalkInit /\ [][WalkNext]_vars

----------------------------------------------------------------------------
(* PuzzleState(board) called with lists that may not be boards *)

\* the lists handed to the constructor: the goal and list(range(n)) with one
\* cell overwritten by any value 0..n (a duplicate, a missing value, a value
\* out of range, or no change), with the last cell dropped, or with one
\* more cell
CandidateBoards(d) ==
    LET base == {GOAL_STATE(d), [i \in 1..Cells(d) |-> i - 1]}
    IN  {[b EXCEPT ![i] = v] : b \in base, i \in 1..Cells(d), v \in 0..Cells(d)}
        \cup {SubSeq(b, 1, Cells(d) - 1) : b \in base}
        \cup {Append(b, Cells(d)) : b \in base}

BuildInit ==
    /\ dim = GridDim
    /\ goal_state = GOAL_STATE(dim)
    /\ heuristic_method = "hamming"
    /\ pc = "build"
    /\ states = << >>
    /\ frontier = << >>
    /\ explored = {}
    /\ counter = 0
    /\ explored_count = 0
    /\ popped = NoTuple
    /\ result = NoResult
    /\ \E board \in CandidateBoards(dim) : probe = [board |-> board]

\* PuzzleState.__init__ returning: the list holds a 0
Construct ==
    /\ pc = "build"
    /\ \E i \in 1..Len(probe.board) : probe.board[i] = 0
    /\ states' = << PuzzleState(probe.board, 0, 0) >>
    /\ pc' = "built"
    /\ UNCHANGED <<dim, goal_state, heuristic_method, frontier, explored, counter,
                   explored_count, popped, result, probe>>

\* PuzzleState.__init__ line 39: board.index(0) raises ValueError, the list
\* holds no 0
ConstructRaises ==
    /\ pc = "build"
    /\ \A i \in 1..Len(probe.board) : probe.board[i] # 0
    /\ pc' = "error"
    /\ UNCHANGED <<dim, goal_state, heuristic_method, states, frontier, explored,
                   counter, explored_count, popped, result, probe>>

BuildNext ==
    \/ Construct
    \/ ConstructRaises

BuildSpec == BuildInit /\ [][BuildNext]_vars

\* the search is one synchronous loop: a step that can be taken is taken
FairSpec == Spec /\ WF_vars(Next)

----------------------------------------------------------------------------
(* What the properties below are stated with *)

\* the board the search was started on
StartBoard == states[1].board

\* the boards of the returned path
PathBoards == [i \in 1..Len(result.path) |-> states[result.path[i]].board]

\* cells i and j are orthogonally adjacent in the grid
Adjacent(i, j, d) ==
    Abs((i \div Cols(d)) - (j \div Cols(d))) + Abs((i % Cols(d)) - (j % Cols(d))) = 1

\* the positions where two boards differ
Diffs(a, b) == {i \in 1..Len(a) : a[i] # b[i]}

\* b is a after one legal blank move
LegalMove(a, b, d) ==
    /\ Len(a) = Len(b)
    /\ \E i, j \in 1..Len(a) :
          /\ Adjacent(i - 1, j - 1, d)
          /\ a[i] = 0
          /\ b = [a EXCEPT ![i] = a[j], ![j] = 0]

LegalSuccessors(a, d) ==
    {[a EXCEPT ![i] = a[j], ![j] = 0] :
        <<i, j>> \in {p \in (1..Len(a)) \X (1..Len(a)) :
                          a[p[1]] = 0 /\ Adjacent(p[1] - 1, p[2] - 1, d)}}

RECURSIVE MovesBetween(_, _, _, _, _)
\* breadth-first: the least number of legal moves from a board of `level`
\* to `target`, counted from k; -1 if there is none
MovesBetween(level, seen, target, k, d) ==
    IF target \in level THEN k
    ELSE IF level = {} THEN -1
    ELSE LET next == (UNION {LegalSuccessors(b, d) : b \in level}) \ seen
         IN  MovesBetween(next, seen \cup next, target, k + 1, d)

\* the length of a shortest legal move sequence from a to b, -1 if none
ShortestMoves(a, b, d) == MovesBetween({a}, {a}, b, 0, d)

Solvable == ShortestMoves(StartBoard, goal_state, dim) >= 0

----------------------------------------------------------------------------
(* C1: from every solvable start board, with either heuristic, the search
   terminates and returns a non-empty path that begins with the start board
   and ends with the goal board. *)
C1_SolvableReturnsPath ==
    /\ [](pc = "done" /\ Solvable =>
            /\ ~result.none
            /\ Len(result.path) >= 1
            /\ PathBoards[1] = StartBoard
            /\ PathBoards[Len(result.path)] = goal_state)
    /\ (pc = "loop" ~> pc = "done")

C1_Witness ==
    /\ pc = "done"
    /\ dim = GridDim
    /\ ~result.none
    /\ Len(result.path) = MaxScramble + 1
    /\ ShortestMoves(StartBoard, goal_state, dim) = MaxScramble

(* C2: the returned path is a shortest one: its number of moves equals the
   least number of legal blank moves from the start to the goal. *)
C2_Optimal ==
    pc = "done" =>
        LET dist == ShortestMoves(StartBoard, goal_state, dim)
        IN  dist >= 0 =>
                /\ ~result.none
                /\ Len(result.path) - 1 = dist

C2_Witness ==
    /\ pc = "done"
    /\ dim = GridDim
    /\ ~result.none
    /\ Len(result.path) - 1 >= 4
    /\ explored_count > Len(result.path) - 1

(* C3: every consecutive pair of states in a returned path differs in
   exactly two board positions, and the blank is on one of them in both
   states. *)
C3_PathSteps ==
    pc = "done" /\ ~result.none =>
        \A k \in 1..(Len(result.path) - 1) :
            LET a == PathBoards[k]
                b == PathBoards[k + 1]
            IN  /\ Cardinality(Diffs(a, b)) = 2
                /\ \E i \in Diffs(a, b) : a[i] = 0
                /\ \E i \in Diffs(a, b) : b[i] = 0
                /\ LegalMove(a, b, dim)

C3_Witness ==
    /\ pc = "done"
    /\ dim = GridDim
    /\ ~result.none
    /\ Len(result.path) >= 4

(* C4: a search started on the goal board returns a path of length 1 and
   an expansion count of 0, with either heuristic. *)
C4_GoalStart ==
    pc = "done" /\ StartBoard = goal_state =>
        /\ ~result.none
        /\ Len(result.path) = 1
        /\ PathBoards = << goal_state >>
        /\ result.explored_count = 0

C4_Witness ==
    /\ pc = "done"
    /\ dim = GridDim
    /\ StartBoard = goal_state
    /\ heuristic_method = "manhattan"

\* the method names compute_h accepts
Supported(method) == method \in {"hamming", "manhattan"}

\* the entries of a heap list
Entries(heap) == {heap[i] : i \in 1..Len(heap)}

\* (f, h, order) of a before that of b
LexBefore(a, b) ==
    \/ a[1] < b[1]
    \/ a[1] = b[1] /\ a[2] < b[2]
    \/ a[1] = b[1] /\ a[2] = b[2] /\ a[3] < b[3]

\* some state with this board has been added to the visited set
Visited(board) == \E e \in explored : states[e].board = board

(* C5: from a start board from which the goal is not reachable the search
   terminates with an empty frontier and returns None with the final
   expansion counter; no search raises once its heuristic name is accepted,
   and none returns a path to an unreachable goal. *)
C5_UnsolvableReturnsNone ==
    /\ [](pc = "done" /\ ~Solvable =>
            /\ result.none
            /\ result.path = << >>
            /\ frontier = << >>
            /\ result.explored_count = explored_count)
    /\ [](pc = "error" => ~Supported(heuristic_method))
    /\ (pc = "loop" ~> pc = "done")

C5_Witness ==
    /\ pc = "done"
    /\ dim = <<2, 3>>
    /\ result.none
    /\ frontier = << >>
    /\ result.explored_count = 360

(* C6: a heuristic name other than "hamming" and "manhattan" makes
   compute_h raise, and a_star_search then ends in the error before anything
   is pushed, marked visited or counted; the start state's h stays unset. *)
C6_UnsupportedFailsFast ==
    /\ compute_h(goal_state, goal_state, heuristic_method, dim).raised
          = ~Supported(heuristic_method)
    /\ ~Supported(heuristic_method) /\ pc # "init" =>
            /\ pc = "error"
            /\ frontier = << >>
            /\ explored = {}
            /\ explored_count = 0
            /\ counter = 0
            /\ states[1].h = 0
            /\ result = NoResult

C6_Witness ==
    /\ pc = "error"
    /\ dim = GridDim
    /\ heuristic_method = "euclid"
    /\ StartBoard # goal_state

(* C7: every pop removes the frontier entry whose (f, h, order) is least:
   lower f, then lower h, then the entry pushed earliest. *)
C7_PopsLeast ==
    [][pc = "loop" /\ frontier # << >> =>
          /\ popped' \in Entries(frontier)
          /\ \A e \in Entries(frontier) : e = popped' \/ LexBefore(popped', e)
          /\ popped' \notin Entries(frontier')
          /\ Entries(frontier) \ {popped'} \subseteq Entries(frontier')]_vars

\* the entry popped last tied on f and h with an entry that was already
\* in the frontier and is still there
C7_Witness ==
    /\ pc = "loop"
    /\ dim = GridDim
    /\ popped # NoTuple
    /\ \E e \in Entries(frontier) :
          /\ e[1] = popped[1]
          /\ e[2] = popped[2]
          /\ e[3] > popped[3]
          /\ states[e[4]].parent # popped[4]

(* C8: the expansion counter counts exactly the popped states that were
   not yet visited and failed the goal test: it always equals the size of
   the visited set, and the value returned is the counter as it stood
   before the final pop. *)
C8_ExpansionCounter ==
    /\ [](pc \in {"loop", "done"} => explored_count = Cardinality(explored))
    /\ [](pc = "done" => result.explored_count = explored_count)
    /\ [][pc = "loop" =>
            explored_count' = explored_count
                + (IF /\ frontier # << >>
                      /\ states[popped'[4]].board # goal_state
                      /\ ~Visited(states[popped'[4]].board)
                   THEN 1 ELSE 0)]_vars

C8_Witness ==
    /\ pc = "done"
    /\ dim = GridDim
    /\ ~result.none
    /\ result.explored_count >= 6
    /\ result.explored_count = Cardinality(explored)
    /\ Len(frontier) >= 2

(* C9: popping a state whose board is already visited only removes it from
   the frontier: the counter, the visited set, the states and the rest of
   the frontier stay as they are; no board is expanded twice. *)
C9_VisitedPopDiscarded ==
    /\ [][pc = "loop" /\ frontier # << >> /\ Visited(states[popped'[4]].board) =>
            /\ explored' = explored
            /\ explored_count' = explored_count
            /\ states' = states
            /\ counter' = counter
            /\ pc' = "loop"
            /\ Len(frontier') = Len(frontier) - 1
            /\ Entries(frontier') = Entries(frontier) \ {popped'}]_vars
    /\ [](Cardinality({states[e].board : e \in explored}) = Cardinality(explored))

\* a state was popped whose board had been visited through another state
C9_Witness ==
    /\ pc = "loop"
    /\ dim = GridDim
    /\ popped # NoTuple
    /\ popped[4] \notin explored
    /\ Visited(states[popped[4]].board)

(* C10: for every permutation of 0..8, solvable or not,
   manhattan_distance(B, goal) >= hamming_distance(B, goal). *)
C10_ManhattanDominates ==
    pc = "probed" => probe.h_m >= probe.h_h

\* tiles 1 and 3 exchanged: not solvable, two tiles misplaced, four moves apart
C10_Witness ==
    /\ pc = "probed"
    /\ dim = GridDim
    /\ probe.state = <<3, 2, 1, 4, 5, 6, 7, 8, 0>>
    /\ probe.h_h = 2
    /\ probe.h_m = 4

(* C11: both heuristics are admissible: for every start board from which
   the goal is reachable, hamming_distance and manhattan_distance against
   the goal, and the h the search stores for the start state, are at most
   the least number of legal moves from the board to the goal. *)
C11_Admissible ==
    pc = "loop" /\ popped = NoTuple =>
        LET dist == ShortestMoves(StartBoard, goal_state, dim)
        IN  dist >= 0 =>
            /\ hamming_distance(StartBoard, goal_state, dim) <= dist
            /\ manhattan_distance(StartBoard, goal_state, dim) <= dist
            /\ states[1].h <= dist

\* a start whose manhattan distance is exactly its distance from the goal
C11_Witness ==
    /\ pc = "loop"
    /\ popped = NoTuple
    /\ dim = GridDim
    /\ heuristic_method = "manhattan"
    /\ states[1].h = ShortestMoves(StartBoard, goal_state, dim)
    /\ states[1].h >= 6
    /\ hamming_distance(StartBoard, goal_state, dim) < states[1].h

(* C12: a board measured against itself has zero cost: hamming_distance,
   manhattan_distance and compute_h with either method name all give 0 for
   (B, B), for every board B. *)
C12_SelfDistanceZero ==
    pc = "probed_self" =>
        /\ goal_state = probe.state
        /\ probe.h_h = 0
        /\ probe.h_m = 0
        /\ probe.c_h = Return(0)
        /\ probe.c_m = Return(0)

\* a board other than the configured goal, measured against itself
C12_Witness ==
    /\ pc = "probed_self"
    /\ dim = GridDim
    /\ probe.state = <<3, 2, 1, 4, 5, 6, 7, 8, 0>>
    /\ goal_state = probe.state
    /\ probe.h_m = 0

\* the number of cells holding a tile (not the blank) that differs from the
\* goal's
Misplaced(board, goal) ==
    Cardinality({i \in 1..Len(board) : board[i] # 0 /\ board[i] # goal[i]})

\* the cell (0-based) of a value in a board
CellOf(board, v) == CHOOSE i \in 0..(Len(board) - 1) : board[i + 1] = v

\* the sum, over the tiles 1..n-1, of the row and column distance between
\* the tile's cell in board and its cell in goal
TileDistances(board, goal, d) ==
    SumTo([t \in 0..(Len(board) - 2) |->
              Abs((CellOf(board, t + 1) \div Cols(d)) - (CellOf(goal, t + 1) \div Cols(d)))
              + Abs((CellOf(board, t + 1) % Cols(d)) - (CellOf(goal, t + 1) % Cols(d)))],
          Len(board) - 1)

(* C13: compute_h with "hamming" returns the number of cells whose tile is
   not the blank and differs from the goal's; with "manhattan" it returns
   the sum over the non-blank tiles of row distance plus column distance
   between the tile's cell in the board and in the goal. *)
C13_ComputeHDispatch ==
    pc = "selected" =>
        /\ probe.c_h = Return(Misplaced(probe.state, goal_state))
        /\ probe.c_m = Return(TileDistances(probe.state, goal_state, dim))

\* the board of test_compute_h_selector: both are 2
C13_Witness ==
    /\ pc = "selected"
    /\ dim = GridDim
    /\ probe.state = <<1, 2, 3, 4, 0, 6, 7, 5, 8>>
    /\ goal_state = <<1, 2, 3, 4, 5, 6, 7, 8, 0>>
    /\ probe.c_h = Return(2)
    /\ probe.c_m = Return(2)

\* the cells of the 3 x 3 grid by kind
Corners == {0, 2, 6, 8}
Edges == {1, 3, 5, 7}
Center == {4}

(* C14: neighbors() returns exactly 2 states when the blank is at a corner,
   3 when it is on a non-corner edge cell and 4 when it is at the center;
   on every grid, as many as the blank's cell has orthogonally adjacent
   cells. *)
C14_NeighborCount ==
    pc = "neighbored" =>
        /\ dim = GridDim =>
              Len(probe.neighbors) =
                 (IF probe.self.blank_index \in Corners THEN 2
                  ELSE IF probe.self.blank_index \in Edges THEN 3
                  ELSE 4)
        /\ Len(probe.neighbors) =
              Cardinality({j \in 0..(Cells(dim) - 1) :
                              Adjacent(probe.self.blank_index, j, dim)})

\* the blank at the center: four neighbors
C14_Witness ==
    /\ pc = "neighbored"
    /\ dim = GridDim
    /\ probe.self.blank_index \in Center
    /\ Len(probe.neighbors) = 4

(* C15: every state returned by neighbors() has the parent's board with the
   blank swapped with one orthogonally adjacent in-bounds cell (two cells
   differ, one of them holds 0), g = parent.g + 1 and h = 0; the returned
   boards are pairwise distinct. *)
C15_NeighborStates ==
    pc = "neighbored" =>
        /\ \A k \in 1..Len(probe.neighbors) :
              LET n == probe.neighbors[k]
              IN  /\ LegalMove(probe.self.board, n.board, dim)
                  /\ Cardinality(Diffs(probe.self.board, n.board)) = 2
                  /\ \E i \in Diffs(probe.self.board, n.board) : n.board[i] = 0
                  /\ n.g = probe.self.g + 1
                  /\ n.h = 0
                  /\ n.f = n.g
                  /\ n.board[n.blank_index + 1] = 0
        /\ \A j, k \in 1..Len(probe.neighbors) :
              j # k => probe.neighbors[j].board # probe.neighbors[k].board

\* a state built with g = 2 and the blank on an edge: three neighbors with g = 3
C15_Witness ==
    /\ pc = "neighbored"
    /\ dim = GridDim
    /\ probe.self.g = 2
    /\ probe.self.blank_index = 1
    /\ Len(probe.neighbors) = 3
    /\ \A k \in 1..3 : probe.neighbors[k].g = 3

\* the direction the blank moved from cell a to the adjacent cell b:
\* 1 up, 2 down, 3 left, 4 right
DirRank(a, b, d) ==
    IF b = a - Cols(d) THEN 1
    ELSE IF b = a + Cols(d) THEN 2
    ELSE IF b = a - 1 THEN 3
    ELSE 4

\* the order number of the frontier entry that carries state id
OrderOf(heap, id) == (CHOOSE e \in Entries(heap) : e[4] = id)[3]

\* the directions in which the blank of cell a can move without leaving
\* the grid
LegalDirs(a, d) ==
    {DirRank(a, b, d) : b \in {j \in 0..(Cells(d) - 1) : Adjacent(a, j, d)}}

(* C16: the successors of one expansion are emitted in the order blank-up,
   blank-down, blank-left, blank-right with the out-of-bounds moves left
   out: the states pushed by one expansion appear in that order and their
   insertion numbers increase in that order, starting at the counter's
   value; when nothing was visited before, every in-bounds move is
   pushed. *)
C16_EmissionOrder ==
    [][pc = "loop" /\ Len(states') > Len(states) =>
          LET new == (Len(states) + 1)..Len(states')
              from == states[popped'[4]].blank_index
              rank(i) == DirRank(from, states'[i].blank_index, dim)
          IN  /\ \A i \in new :
                    /\ states'[i].parent = popped'[4]
                    /\ Adjacent(from, states'[i].blank_index, dim)
                    /\ OrderOf(frontier', i) = counter + (i - Len(states) - 1)
              /\ \A i, j \in new :
                    i < j => /\ rank(i) < rank(j)
                             /\ OrderOf(frontier', i) < OrderOf(frontier', j)
              /\ explored = {} =>
                    {rank(i) : i \in new} = LegalDirs(from, dim)]_vars

\* the first expansion with the blank at the center: the four neighbors
\* were pushed up, down, left, right with the numbers 1 to 4
C16_Witness ==
    /\ pc = "loop"
    /\ dim = GridDim
    /\ explored = {1}
    /\ states[1].blank_index = 4
    /\ Len(states) = 5
    /\ <<states[2].blank_index, states[3].blank_index,
         states[4].blank_index, states[5].blank_index>> = <<1, 7, 3, 5>>
    /\ \A i \in 2..5 : OrderOf(frontier, i) = i - 1

\* two boards agree cell by cell
SameBoard(a, b) == Len(a) = Len(b) /\ \A k \in 1..Len(a) : a[k] = b[k]

(* C17: two states are equal and have the same hash exactly when their
   boards agree cell by cell, whatever their g, h, f and parent; a state is
   found in the visited set exactly when a state with its board was added
   to it. *)
C17_EqualityByBoard ==
    pc = "done" =>
        LET ids == DOMAIN states
            hs == [i \in ids |-> StateHash(states[i])]
        IN  /\ \A i, j \in ids :
                  (StateEq(states[i], states[j]) /\ hs[i] = hs[j])
                      <=> SameBoard(states[i].board, states[j].board)
            /\ \A i \in ids :
                  InExplored(states[i], explored, states)
                      <=> \E e \in explored :
                              SameBoard(states[e].board, states[i].board)

\* a search that created two states with one board but different g, f and
\* parent
C17_Witness ==
    /\ pc = "done"
    /\ dim = GridDim
    /\ \E i, j \in DOMAIN states :
          /\ states[i].board = states[j].board
          /\ states[i].g # states[j].g
          /\ states[i].f # states[j].f
          /\ states[i].parent # states[j].parent

\* every value 0..n-1 occurs exactly once in the n cells
IsPermutation(board, n) ==
    /\ Len(board) = n
    /\ {board[i] : i \in 1..n} = 0..(n - 1)

\* the number of pairs of tiles a < b that stand in the order b, a is even
EvenInversions(board) ==
    Cardinality({p \in (1..(Len(board) - 1)) \X (1..(Len(board) - 1)) :
                    p[1] < p[2] /\ CellOf(board, p[2]) < CellOf(board, p[1])}) % 2 = 0

(* C18: whenever generate_random_board returns, the board is a permutation
   of 0..8 that is_solvable accepts: the number of inversions among its
   non-blank tiles is even, whatever the shuffles produced. *)
C18_GeneratedSolvable ==
    pc = "generated" =>
        /\ IsPermutation(probe.board, 9)
        /\ is_solvable(probe.board)
        /\ EvenInversions(probe.board)

\* a returned board with two inversions (2 before 1, 4 before 3)
C18_Witness ==
    /\ pc = "generated"
    /\ probe.board = <<0, 2, 1, 4, 3, 5, 6, 7, 8>>

(* C19: is_solvable(B) is true exactly for the boards B from which the
   goal [1,2,3,4,5,6,7,8,0] is reachable by legal blank moves: it is true on
   every board that legal moves reach from the goal, false on every board
   they reach from the goal with two tiles exchanged, and every legal move
   can be undone by the opposite move. *)
C19_SolvableIffReachable ==
    pc = "walk" =>
        /\ is_solvable(probe.board) <=> probe.origin = "goal"
        /\ \A mv \in Moves :
              LET b == apply_move(probe.board, mv[1], mv[2], dim)
              IN  b # << >> => apply_move(b, -mv[1], -mv[2], dim) = probe.board

\* a board 31 moves from the goal
C19_Witness ==
    /\ pc = "walk"
    /\ probe.origin = "goal"
    /\ goal_state = <<1, 2, 3, 4, 5, 6, 7, 8, 0>>
    /\ probe.board = <<8, 6, 7, 2, 5, 4, 3, 0, 1>>
    /\ is_solvable(probe.board)

(* C20: a malformed board (wrong length, or not a permutation of 0..8) is
   rejected when the state is constructed: no state with a malformed board
   is ever created. *)
C20_MalformedRejected ==
    pc = "built" => IsPermutation(states[1].board, 9)

----------------------------------------------------------------------------
(* the scenarios of tests/test_search.py *)

\* puzzles.config.GOAL_STATE as test_search.py imports it (GOAL): the board
\* [1,2,3,4,5,6,7,8,0] on the 3x3 grid
GOAL(d) == [i \in 1..Cells(d) |-> IF i = Cells(d) THEN 0 ELSE i]

RECURSIVE ApplyMovesFrom(_, _, _, _)
\* the loop of apply_moves_from_goal from move k on; << >> is None
ApplyMovesFrom(board, moves, k, d) ==
    IF k > Len(moves) THEN board
    ELSE LET next == apply_move(board, moves[k][1], moves[k][2], d)
         IN  IF next = << >> THEN << >>
             ELSE ApplyMovesFrom(next, moves, k + 1, d)

\* apply_moves_from_goal: the moves applied in turn to a copy of GOAL, None
\* as soon as one of them leaves the grid
apply_moves_from_goal(moves, d) == ApplyMovesFrom(GOAL(d), moves, 1, d)

\* the moves of test_two_moves_away_solution_exact: right, then down
RightThenDown == <<<<0, 1>>, <<1, 0>>>>

\* C21: the start board built from the goal by the blank moves right then
\* down exists (apply_moves_from_goal does not return None), and every search
\* started on it, under hamming and under manhattan, returns a path of
\* exactly 2 moves
C21_RightThenDownSolvedInTwo ==
    dim = GridDim =>
        LET start_board == apply_moves_from_goal(RightThenDown, dim)
        IN  /\ start_board # << >>
            /\ (pc = "done" /\ StartBoard = start_board)
                   => ~result.none /\ Len(result.path) - 1 = 2

\* the same scenario with the two moves that stay on the grid from GOAL
LeftThenUpSolvedInTwo ==
    dim = GridDim =>
        LET start_board == apply_moves_from_goal(<<<<0, -1>>, <<-1, 0>>>>, dim)
        IN  /\ start_board # << >>
            /\ (pc = "done" /\ StartBoard = start_board)
                   => ~result.none /\ Len(result.path) - 1 = 2

(* C22: the path returned for the popped goal state starts at the parentless
   initial state, ends at the popped state, and each state on it is the
   parent of the next; its length minus one is the goal state's g less the
   start's g (the start has g = 0); the call changes no parent link, and
   reconstruct_path applied again to the last state of the path gives the
   same board sequence. *)
C22_ReconstructPath ==
    /\ [](pc = "done" /\ ~result.none =>
            LET path == result.path
                n == Len(path)
                again == reconstruct_path(path[n], states)
            IN  /\ n >= 1
                /\ path[n] = popped[4]
                /\ path[1] = 1
                /\ states[path[1]].parent = 0
                /\ \A k \in 1..(n - 1) : states[path[k + 1]].parent = path[k]
                /\ states[1].g = 0
                /\ n - 1 = states[path[n]].g
                /\ [i \in 1..Len(again) |-> states[again[i]].board] = PathBoards)
    /\ [][pc' = "done" =>
            /\ DOMAIN states' = DOMAIN states
            /\ \A i \in DOMAIN states : states'[i].parent = states[i].parent]_vars

C22_Witness ==
    /\ pc = "done"
    /\ dim = GridDim
    /\ ~result.none
    /\ Len(result.path) = MaxScramble + 1
    /\ states[popped[4]].g = MaxScramble
    /\ reconstruct_path(result.path[Len(result.path)], states) = result.path

\* the objects created by the step: the neighbors pushed by one expansion
Pushed == (Len(states) + 1)..Len(states')

(* C23: for every entry of the frontier, in every reachable state, the h of
   its state is the selected heuristic of its board against the goal, its f
   is g + h, the entry carries that f and h, and, unless it is the start
   state, its g is one more than the g of its parent, a visited state; each
   state pushed by a step has the state being expanded as parent and a board
   that is not in the visited set. *)
C23_FrontierEntries ==
    /\ [](\A e \in Entries(frontier) :
            LET s == states[e[4]]
            IN  /\ s.h = compute_h(s.board, goal_state, heuristic_method, dim).value
                /\ s.f = s.g + s.h
                /\ e[1] = s.f
                /\ e[2] = s.h
                /\ IF e[4] = 1 THEN s.parent = 0
                   ELSE /\ s.parent \in explored
                        /\ s.g = states[s.parent].g + 1)
    /\ [][\A i \in Pushed :
            /\ states'[i].parent = popped'[4]
            /\ popped'[4] \in explored'
            /\ ~\E e \in explored' : states'[e].board = states'[i].board
            /\ \E e \in Entries(frontier') : e[4] = i]_vars

\* a manhattan search after several expansions (each but the first passed
\* over its visited parent), holding an entry three moves from the start
\* whose h is not the Hamming distance
C23_Witness ==
    /\ pc = "loop"
    /\ dim = GridDim
    /\ heuristic_method = "manhattan"
    /\ explored_count >= 3
    /\ Len(frontier) >= 4
    /\ \E e \in Entries(frontier) :
          /\ states[e[4]].g >= 3
          /\ states[e[4]].h # hamming_distance(states[e[4]].board, goal_state, dim)

\* the objects the search holds: in the frontier, in the visited set and on
\* the returned path
Held == {e[4] : e \in Entries(frontier)} \cup explored
            \cup {result.path[i] : i \in 1..Len(result.path)}

(* C24: when the start board is a permutation of the cell numbers (0..8 on
   the 3x3 grid), every board the search holds, in the frontier, in the
   visited set or on the returned path, is such a permutation, and the
   blank_index of each state is the position of 0 in its own board. *)
C24_Permutations ==
    IsPermutation(StartBoard, Cells(dim)) =>
        /\ Held \subseteq DOMAIN states
        /\ \A i \in DOMAIN states :
              /\ IsPermutation(states[i].board, Cells(dim))
              /\ states[i].blank_index \in 0..(Cells(dim) - 1)
              /\ states[i].board[states[i].blank_index + 1] = 0

C24_Witness ==
    /\ pc = "done"
    /\ dim = GridDim
    /\ IsPermutation(StartBoard, 9)
    /\ Len(result.path) >= 5
    /\ Cardinality(explored) >= 5
    /\ Len(frontier) >= 5
    /\ Cardinality({states[i].blank_index : i \in Held}) = 9

(* C25: no step of the search changes the board, the blank_index or the g of
   a state that exists: the state being expanded keeps them while its
   neighbors are built, the start state keeps the board it was given (the
   caller's list), and the goal list stays as it was. *)
C25_BoardsNotMutated ==
    [][/\ goal_state' = goal_state
       /\ DOMAIN states \subseteq DOMAIN states'
       /\ \A i \in DOMAIN states :
             /\ states'[i].board = states[i].board
             /\ states'[i].blank_index = states[i].blank_index
             /\ states'[i].g = states[i].g]_vars

\* an expansion of a state that is not the start has happened, neighbors
\* were pushed, and the start and the expanded state hold their boards
C25_Witness ==
    /\ pc = "loop"
    /\ dim = GridDim
    /\ explored_count >= 2
    /\ popped[4] # 1
    /\ popped[4] \in explored
    /\ \E i \in DOMAIN states : states[i].parent = popped[4]
    /\ states[popped[4]].board[states[popped[4]].blank_index + 1] = 0
    /\ \E i \in DOMAIN states :
          /\ states[i].parent = popped[4]
          /\ states[i].board # states[popped[4]].board

\* the sequence numbers of the entries of a heap
Orders(heap) == {e[3] : e \in Entries(heap)}

(* C26: the start state is pushed with sequence number 0; every push takes
   the counter's value and advances the counter by one, so the numbers of
   the entries pushed by a step are the counter's values before the step up
   to the one before its value after the step, all above every number given
   out earlier; hence the entries of the frontier carry pairwise different
   numbers, no two agree on (f, h, number), and the comparison of two
   entries is decided before it reaches the states. *)
C26_SequenceNumbers ==
    /\ [](/\ Cardinality(Orders(frontier)) = Len(frontier)
          /\ \A e \in Entries(frontier) :
                /\ e[3] \in 0..(counter - 1)
                /\ e[4] = 1 <=> e[3] = 0
          /\ \A a, b \in Entries(frontier) :
                a # b => << a[1], a[2], a[3] >> # << b[1], b[2], b[3] >>
          /\ \A a, b \in Entries(frontier) :
                a # b => TupleLess(a, b) \/ TupleLess(b, a))
    /\ [][/\ counter' >= counter
          /\ Orders(frontier') \ Orders(frontier) \subseteq counter..(counter' - 1)
          /\ pc = "loop" =>
                /\ counter' - counter = Len(states') - Len(states)
                /\ Orders(frontier') \ Orders(frontier) = counter..(counter' - 1)
          /\ (pc = "init" /\ pc' = "loop") =>
                /\ counter' = 1
                /\ frontier' = << << states'[1].f, states'[1].h, 0, 1 >> >>]_vars

\* the frontier holds two entries with the same f and the same h, told apart
\* by their numbers only
C26_Witness ==
    /\ pc = "loop"
    /\ dim = GridDim
    /\ counter >= 6
    /\ \E a, b \in Entries(frontier) :
          a[1] = b[1] /\ a[2] = b[2] /\ a[3] < b[3]

----------------------------------------------------------------------------
(* two calls of a_star_search on the same start board, goal and heuristic
   name: the variables hold the call that is stepping, probe holds the
   other *)

MaxDualScramble == 3

DualDims == {GridDim, <<2, 2>>}

DualStartBoards(d) ==
    Scrambled({GOAL_STATE(d)}, MaxDualScramble, d)
    \cup (IF d \in SmallDims
          THEN Scrambled({Twin(GOAL_STATE(d))}, MaxTwinScramble, d)
          ELSE {})

\* the locals of the call that is stepping
Run ==
    [pc |-> pc, states |-> states, frontier |-> frontier,
     explored |-> explored, counter |-> counter,
     explored_count |-> explored_count, popped |-> popped,
     result |-> result]

\* both calls before their first line, each with its own PuzzleState of the
\* same board
DualInit ==
    /\ dim \in DualDims
    /\ goal_state = GOAL_STATE(dim)
    /\ heuristic_method \in Methods
    /\ pc = "init"
    /\ \E start_board \in DualStartBoards(dim) :
           states = << PuzzleState(start_board, 0, 0) >>
    /\ frontier = << >>
    /\ explored = {}
    /\ counter = 0
    /\ explored_count = 0
    /\ popped = NoTuple
    /\ result = NoResult
    /\ probe = [pc |-> "init", states |-> states, frontier |-> << >>,
                explored |-> {}, counter |-> 0, explored_count |-> 0,
                popped |-> NoTuple, result |-> NoResult]

\* the other call takes the next steps
Switch ==
    /\ probe # Run
    /\ pc' = probe.pc
    /\ states' = probe.states
    /\ frontier' = probe.frontier
    /\ explored' = probe.explored
    /\ counter' = probe.counter
    /\ explored_count' = probe.explored_count
    /\ popped' = probe.popped
    /\ result' = probe.result
    /\ probe' = Run
    /\ UNCHANGED <<dim, goal_state, heuristic_method>>

DualNext ==
    \/ Next
    \/ Switch

DualSpec == DualInit /\ [][DualNext]_vars

\* the number of pops a call has made: objects pushed less entries left
Pops(run) == Len(run.states) - Len(run.frontier)

\* the boards of a call's returned path
RunPathBoards(run) ==
    [i \in 1..Len(run.result.path) |-> run.states[run.result.path[i]].board]

(* C27: two calls of a_star_search on the same start board, the same goal
   and the same heuristic name that have made the same number of pops have
   popped the same entry last and hold the same frontier, visited set,
   objects and counters; when both have returned, they return the same
   board sequence (or both None) and the same expansion count. *)
C27_Deterministic ==
    /\ (pc = "loop" /\ probe.pc = "loop" /\ Pops(Run) = Pops(probe))
           => /\ Run = probe
              /\ Pops(Run) > 0 =>
                    states[popped[4]].board = probe.states[probe.popped[4]].board
    /\ (pc = "done" /\ probe.pc = "done")
           => /\ result.none = probe.result.none
              /\ RunPathBoards(Run) = RunPathBoards(probe)
              /\ result.explored_count = probe.result.explored_count
              /\ Pops(Run) = Pops(probe)
              /\ Run = probe
    /\ (pc = "error" /\ probe.pc = "error") => Run = probe
    /\ (pc \in {"done", "error"} /\ probe.pc \in {"done", "error"})
           => pc = probe.pc

\* both calls have returned a path after expansions on the 3x3 grid, one of
\* them having been ahead of the other
C27_Witness ==
    /\ pc = "done"
    /\ probe.pc = "done"
    /\ dim = GridDim
    /\ ~result.none
    /\ explored_count >= MaxDualScramble
    /\ Len(result.path) = MaxDualScramble + 1
    /\ RunPathBoards(probe) = PathBoards

(* C28: the start state has no parent; the parent of every other state that
   was pushed is a visited state, created before it, whose g is exactly one
   less; and from every state in the frontier the parent links lead to the
   start state in exactly g - start.g steps, so they form no cycle. *)
C28_ParentLinks ==
    /\ states[1].parent = 0
    /\ \A i \in DOMAIN states \ {1} :
          /\ states[i].parent \in explored
          /\ states[i].parent < i
          /\ states[i].g = states[states[i].parent].g + 1
    /\ \A e \in Entries(frontier) :
          LET chain == ParentChain(e[4], states)
          IN  /\ Len(chain) - 1 = states[e[4]].g - states[1].g
              /\ chain[Len(chain)] = 1

\* the frontier holds a state five links away from the start
C28_Witness ==
    /\ pc = "loop"
    /\ dim = GridDim
    /\ \E e \in Entries(frontier) :
          /\ states[e[4]].g = 5
          /\ Len(ParentChain(e[4], states)) = 6
          /\ states[e[4]].parent \in explored
          /\ states[e[4]].parent # 1

----------------------------------------------------------------------------
(* run_single_experiment (experiments/benchmark.py, main.py): one search and
   the tuple reported for it *)

\* end_time - start_time: a difference of two clock readings, kept to two
\* values
Runtimes == {"none", "some"}

\* lines 27-29 with moves = len(solution_path), the states of the path
\* instead of the moves between them
Report_counting_states ==
    /\ pc = "done"
    /\ \E runtime \in Runtimes :
          probe' = [moves |-> IF result.none \/ result.path = << >> THEN -1
                              ELSE Len(result.path),
                    expanded_nodes |-> result.explored_count,
                    runtime |-> runtime]
    /\ pc' = "reported"
    /\ UNCHANGED <<dim, goal_state, heuristic_method, states, frontier, explored,
                   counter, explored_count, popped, result>>

\* benchmark.py lines 24-29 (main.py 20-25) once a_star_search has returned:
\* `if solution_path` is false for None and for an empty list
Report ==
    /\ pc = "done"
    /\ \E runtime \in Runtimes :
          probe' = [moves |-> IF result.none \/ result.path = << >> THEN -1
                              ELSE Len(result.path) - 1,
                    expanded_nodes |-> result.explored_count,
                    runtime |-> runtime]
    /\ pc' = "reported"
    /\ UNCHANGED <<dim, goal_state, heuristic_method, states, frontier, explored,
                   counter, explored_count, popped, result>>

BenchNext ==
    \/ Next
    \/ Report

BenchSpec == Init /\ [][BenchNext]_vars

(* C29: the tuple run_single_experiment reports has moves = len(path) - 1
   when the search returned a path, moves = -1 exactly when the search
   returned None, and expanded_nodes equal to the expansion count of the
   search, which is not negative. *)
C29_ExperimentReport ==
    pc = "reported" =>
        /\ ~result.none => probe.moves = Len(result.path) - 1
        /\ probe.moves = -1 <=> result.none
        /\ probe.expanded_nodes = explored_count
        /\ probe.expanded_nodes = Cardinality(explored)
        /\ probe.expanded_nodes >= 0

\* an exhausted search reported with the sentinel
C29_Witness ==
    /\ pc = "reported"
    /\ result.none
    /\ probe.moves = -1
    /\ probe.expanded_nodes > 0
    /\ frontier = << >>

RECURSIVE FirstSeenAtG(_, _, _, _, _)
\* breadth-first from the boards of `level`, which are k moves from the
\* origin: every pair <<board, g>> of `todo` has its board first met at
\* distance g
FirstSeenAtG(level, seen, todo, k, d) ==
    IF todo = {} THEN TRUE
    ELSE IF level = {} THEN FALSE
    ELSE LET here == {t \in todo : t[1] \in level}
             next == (UNION {LegalSuccessors(b, d) : b \in level}) \ seen
         IN  /\ \A t \in here : t[2] = k
             /\ FirstSeenAtG(next, seen \cup next, todo \ here, k + 1, d)

(* C30: when a state is expanded, the Hamming and the Manhattan distance of
   each of its neighbors differ from its own by at most 1; the f of each
   popped entry is at least the f of the entry popped before it; and the g
   of every state that was expanded is the least number of legal moves from
   the start board to its board. *)
C30_Consistent ==
    /\ [][explored' # explored =>
            \A current \in {states[popped'[4]]} :
            \A nbrs \in {neighbors(current, dim)} :
            \A h_h \in {hamming_distance(current.board, goal_state, dim)} :
            \A h_m \in {manhattan_distance(current.board, goal_state, dim)} :
            \A k \in 1..Len(nbrs) :
               /\ Abs(hamming_distance(nbrs[k].board, goal_state, dim) - h_h) <= 1
               /\ Abs(manhattan_distance(nbrs[k].board, goal_state, dim) - h_m) <= 1]_vars
    /\ [][(popped # NoTuple /\ popped' # popped) => popped'[1] >= popped[1]]_vars
    /\ [](pc = "done" =>
            FirstSeenAtG({StartBoard}, {StartBoard},
                         {<< states[e].board, states[e].g >> : e \in explored},
                         0, dim))

\* a returned search that expanded a state six moves from the start and
\* popped entries of different f
C30_Witness ==
    /\ pc = "done"
    /\ dim = GridDim
    /\ ~result.none
    /\ \E e \in explored : states[e].g = 6
    /\ \E e \in explored : states[e].f < popped[1]
    /\ \E e \in explored :
          hamming_distance(states[e].board, goal_state, dim)
              # manhattan_distance(states[e].board, goal_state, dim)

----------------------------------------------------------------------------
(* neighbors() applied again and again from the goal and from its twin,
   which reaches every permutation of 0..8, next to the searches *)

\* a board is replaced by the board of one of the states neighbors() returns
\* for it
StepToNeighbor ==
    /\ pc = "walk"
    /\ \E nbrs \in {neighbors(PuzzleState(probe.board, 0, 0), dim)} :
         \E k \in 1..Len(nbrs) :
            probe' = [probe EXCEPT !.board = nbrs[k].board]
    /\ UNCHANGED <<dim, goal_state, heuristic_method, pc, states, frontier,
                   explored, counter, explored_count, popped, result>>

ParityInit ==
    \/ Init
    \/ WalkInit

ParityNext ==
    \/ Next
    \/ StepToNeighbor

ParitySpec == ParityInit /\ [][ParityNext]_vars

(* C31: on the 3x3 grid, for every permutation B of 0..8 and every board B'
   of a state in neighbors(B), is_solvable(B') = is_solvable(B); and in every
   reachable state of a search every board the search has created, so every
   board in the frontier or the visited set, has the is_solvable value of
   the start board. *)
C31_ParityPreserved ==
    /\ [][pc = "walk" =>
            is_solvable(probe'.board) = is_solvable(probe.board)]_vars
    /\ []((dim = GridDim /\ pc \in {"init", "loop", "done"}) =>
            /\ Held \subseteq DOMAIN states
            /\ \A s \in {is_solvable(StartBoard)} :
               \A i \in DOMAIN states : is_solvable(states[i].board) = s)

\* repeated neighbors() steps from the twin of the goal have reached a board
\* with the tiles in descending order but for the last two
C31_Witness ==
    /\ pc = "walk"
    /\ dim = GridDim
    /\ probe.origin = "twin"
    /\ probe.board = <<0, 8, 7, 6, 5, 4, 3, 1, 2>>
    /\ ~is_solvable(probe.board)

RECURSIVE ReachableFrom(_, _, _)
\* breadth-first: every board that legal blank moves reach from the boards
\* of `seen`, `level` being those met last
ReachableFrom(level, seen, d) ==
    IF level = {} THEN seen
    ELSE LET next == (UNION {LegalSuccessors(b, d) : b \in level}) \ seen
         IN  ReachableFrom(next, seen \cup next, d)

(* C32: when the search returns None because the frontier is empty, the
   boards of the visited set are exactly the boards that legal moves reach
   from the start board, each held by one visited state, and the returned
   expansion count is the number of those boards. *)
C32_ExhaustionVisitsAll ==
    (pc = "done" /\ result.none) =>
        \A reach \in {ReachableFrom({StartBoard}, {StartBoard}, dim)} :
            /\ {states[e].board : e \in explored} = reach
            /\ Cardinality(explored) = Cardinality(reach)
            /\ result.explored_count = Cardinality(reach)

\* an exhausted search on the 2x3 grid: 360 boards, half of the 720
\* permutations, were expanded
C32_Witness ==
    /\ pc = "done"
    /\ result.none
    /\ frontier = << >>
    /\ dim = <<2, 3>>
    /\ result.explored_count = 360
    /\ goal_state \notin {states[e].board : e \in explored}

====
